---- MODULE Spec2Model ----
(***************************************************************************)
(* A model of itk::Transform (Modules/Core/Transform/include/             *)
(* itkTransform.hxx): the parameter store and its update protocol, the    *)
(* Jacobian based transport of vectors and tensors, and cloning.          *)
(*                                                                         *)
(* Transform is an abstract base class.  The members it leaves to the     *)
(* concrete transform (SetParameters, GetParameters, SetFixedParameters,  *)
(* ComputeJacobianWithRespectToPosition, the SVD pseudo inverse) are      *)
(* modelled by one small variant, a shear of the plane embedded in space: *)
(* its two parameters are a shear coefficient and an offset, its member   *)
(* variables m_Shear and m_Offset are the authoritative state that        *)
(* GetParameters writes back into m_Parameters.                           *)
(*                                                                         *)
(* TParametersValueType is a binary floating point type.  It is modelled  *)
(* by the integers that a round-to-nearest-even format with MantissaBits  *)
(* bits of mantissa represents, so that every sum and product rounds.     *)
(***************************************************************************)
EXTENDS Integers, Sequences, FiniteSets, TLC

\* ------------------------------------------------------------------ bounds
\* Bits of mantissa of the modelled TParametersValueType.
MantissaBits == 2
\* Parameter values are kept within -MaxAbs .. MaxAbs.
MaxAbs == 4
\* The number of threads that evaluate one transform at the same time.
NumThreads == 2

\* ------------------------------------------------------- program constants
\* VInputDimension and VOutputDimension, the template arguments.
InputDimension == 2
OutputDimension == 3
\* numberOfParameters, the constructor's argument: the variant has two.
ParametersDimension == 2

Transforms == {"orig", "clone"}
BufIds == {"Po", "Fo", "Pc", "Fc"}
NoBuf == "none"

VARIABLES
  alive,      \* the transform objects that have been constructed
  pbuf,       \* pbuf[t]: the data block m_Parameters of t points to
  fbuf,       \* fbuf[t]: the data block m_FixedParameters of t points to
  mem,        \* mem[b]: the elements of data block b
  past,       \* past[b]: how many elements behind the end of block b have
              \* been overwritten
  variant,    \* variant[t]: the concrete transform's member variables
  last,       \* the last call: operation, object, arguments, outcome, events
  prev,       \* the call before the last one
  thr,        \* thr[h]: the read-only evaluation thread h is running
  image       \* the image descriptor: origin, spacing, direction

vars == <<alive, pbuf, fbuf, mem, past, variant, last, prev, thr, image>>

\* ------------------------------------------------- floating point arithmetic
Abs(x) == IF x < 0 THEN -x ELSE x

RECURSIVE Pow2(_)
Pow2(n) == IF n = 0 THEN 1 ELSE 2 * Pow2(n - 1)

\* The spacing of representable values around the magnitude n.
\* Whole numbers of a smaller magnitude are all representable.
MantissaLimit == Pow2(MantissaBits)

RECURSIVE Ulp(_)
Ulp(n) == IF n < MantissaLimit THEN 1 ELSE 2 * Ulp(n \div 2)

\* Round to nearest, ties to even mantissa.
RoundMag(n) ==
  LET u  == Ulp(n)
      lo == (n \div u) * u
      hi == lo + u
  IN  IF n = lo THEN n
      ELSE IF n - lo < hi - n THEN lo
      ELSE IF n - lo > hi - n THEN hi
      ELSE IF (lo \div u) % 2 = 0 THEN lo ELSE hi

\* The value of an expression that is worked out once.
Only(S) == CHOOSE x \in S : TRUE

Round(x) ==
  Only({IF -MantissaLimit < v /\ v < MantissaLimit THEN v
        ELSE IF v < 0 THEN -RoundMag(-v) ELSE RoundMag(v) : v \in {x}})

Representable(x) == Round(x) = x

\* a + b and a * b in TParametersValueType.
FAdd(a, b) == Round(a + b)
FMul(a, b) == Round(a * b)

\* ------------------------------------------------------------ the variant
\* The concrete transform's interpretation of a parameter vector.
Interpret(p) == [shear |-> p[1], offset |-> p[2]]

\* GetParameters: m_Parameters as rebuilt from the member variables.
GetParameters(t) == <<variant[t].shear, variant[t].offset>>

GetFixedParameters(t) == mem[fbuf[t]]

\* GetNumberOfParameters.
GetNumberOfParameters(t) == Len(mem[pbuf[t]])

\* ------------------------------------------------------------------ inputs
\* A pointer into a data block: the block and the offset of the element.
\* Block "ext" is an array of the caller's, outside every transform.
Ptr(b, off) == [buf |-> b, off |-> off]

InRange(p) == \A k \in 1..Len(p) : Abs(p[k]) <= MaxAbs

NoArg == [update |-> <<>>, factor |-> 0, begin |-> Ptr(NoBuf, 0)]

\* The threads that evaluate the transform "orig".
Threads == 1..NumThreads

\* A thread that is in no call.
Idle ==
  [pc |-> "idle", op |-> "none", arg |-> <<>>, point |-> <<>>,
   jacobian |-> <<>>, invJacobian |-> <<>>, result |-> <<>>,
   outcome |-> "none", found |-> <<>>]

\* The transform as a call finds it when it begins.
Found(t) == <<mem[pbuf[t]], mem[fbuf[t]], variant[t]>>

\* The record of a call on t: `pre` is what GetParameters returned when the
\* call began.
Call(op, t, arg, outcome, events) ==
  [op |-> op, self |-> t, arg |-> arg, outcome |-> outcome, events |-> events,
   pre |-> GetParameters(t)]

NoCall ==
  [op |-> "none", self |-> "orig", arg |-> NoArg, outcome |-> "ok",
   events |-> <<>>, pre |-> <<>>]

\* The image descriptor of an image as it is constructed: origin 0, spacing
\* 1, direction the identity.
ImageDimension == 2
UnitImage ==
  [origin |-> <<0, 0>>, spacing |-> <<1, 1>>,
   direction |-> <<<<1, 0>>, <<0, 1>>>>]

\* ---------------------------------------------------------------- Init
\* Transform(numberOfParameters): m_Parameters(numberOfParameters),
\* m_FixedParameters().
Init ==
  /\ alive = {"orig"}
  /\ pbuf = [t \in Transforms |-> IF t = "orig" THEN "Po" ELSE NoBuf]
  /\ fbuf = [t \in Transforms |-> IF t = "orig" THEN "Fo" ELSE NoBuf]
  /\ mem = [b \in BufIds \cup {NoBuf} |->
              IF b = "Po" THEN [k \in 1..ParametersDimension |-> 0] ELSE <<>>]
  /\ past = [b \in BufIds \cup {NoBuf} |-> 0]
  /\ variant = [t \in Transforms |-> Interpret(<<0, 0>>)]
  /\ last = NoCall
  /\ prev = NoCall
  /\ thr = [h \in Threads |-> Idle]
  /\ image = UnitImage

\* ------------------------------------------------------------- operations
\* SetParameters(parameters) of the variant, called from outside with a
\* vector that is not m_Parameters itself: the vector is copied into the
\* object's own data block and interpreted.
SetParameters(t, p) ==
  /\ t \in alive
  /\ mem' = [mem EXCEPT ![pbuf[t]] = p]
  /\ variant' = [variant EXCEPT ![t] = Interpret(p)]
  /\ last' = Call("SetParameters", t, NoArg, "ok", <<"SetParameters">>)
  /\ UNCHANGED <<alive, pbuf, fbuf, past>>

SetFixedParameters(t, f) ==
  /\ t \in alive
  /\ mem' = [mem EXCEPT ![fbuf[t]] = f]
  /\ last' = Call("SetFixedParameters", t, NoArg, "ok",
                  <<"SetFixedParameters">>)
  /\ UNCHANGED <<alive, pbuf, fbuf, past, variant>>

\* A setter of the variant that changes a member variable and leaves
\* m_Parameters stale until the next GetParameters.
SetOffset(t, o) ==
  /\ t \in alive
  /\ variant' = [variant EXCEPT ![t].offset = o]
  /\ last' = Call("SetOffset", t, NoArg, "ok", <<>>)
  /\ UNCHANGED <<alive, pbuf, fbuf, mem, past>>

\* AddUpdate with a fast path that assigns instead of adding.
AddUpdate_Assign(p, update, factor) ==
  IF factor = 1
    THEN [k \in 1..Len(p) |-> update[k]]
    ELSE [k \in 1..Len(p) |-> FAdd(p[k], FMul(update[k], factor))]

\* AddUpdate with a general path that forgets the factor's sign.
AddUpdate_AbsFactor(p, update, factor) ==
  IF factor = 1
    THEN [k \in 1..Len(p) |-> FAdd(p[k], update[k])]
    ELSE [k \in 1..Len(p) |-> FAdd(p[k], FMul(update[k], Abs(factor)))]

\* The element-wise addition of UpdateTransformParameters.
AddUpdate(p, update, factor) ==
  IF factor = 1
    THEN [k \in 1..Len(p) |-> FAdd(p[k], update[k])]
    ELSE [k \in 1..Len(p) |-> FAdd(p[k], FMul(update[k], factor))]

\* UpdateTransformParameters adding to m_Parameters as it finds it, without
\* GetParameters before.
UpdateTransformParameters_Stale(t, update, factor) ==
  /\ t \in alive
  /\ LET numberOfParameters == GetNumberOfParameters(t)
         arg == [NoArg EXCEPT !.update = update, !.factor = factor]
     IN  IF Len(update) # numberOfParameters
           THEN /\ last' = Call("UpdateTransformParameters", t, arg,
                                "SizeError", <<>>)
                /\ UNCHANGED <<alive, pbuf, fbuf, mem, past, variant>>
           ELSE LET updated == AddUpdate(mem[pbuf[t]], update, factor)
                IN  /\ InRange(updated)
                    /\ mem' = [mem EXCEPT ![pbuf[t]] = updated]
                    /\ variant' = [variant EXCEPT ![t] = Interpret(updated)]
                    /\ last' = Call("UpdateTransformParameters", t, arg, "ok",
                                    <<"Add", "SetParameters", "Modified">>)
                    /\ UNCHANGED <<alive, pbuf, fbuf, past>>

\* UpdateTransformParameters rejecting only updates that are too short.
UpdateTransformParameters_LessThan(t, update, factor) ==
  /\ t \in alive
  /\ LET numberOfParameters == GetNumberOfParameters(t)
         arg == [NoArg EXCEPT !.update = update, !.factor = factor]
     IN  IF Len(update) < numberOfParameters
           THEN /\ last' = Call("UpdateTransformParameters", t, arg,
                                "SizeError", <<>>)
                /\ UNCHANGED <<alive, pbuf, fbuf, mem, past, variant>>
           ELSE LET updated == AddUpdate(GetParameters(t), update, factor)
                IN  /\ InRange(updated)
                    /\ mem' = [mem EXCEPT ![pbuf[t]] = updated]
                    /\ variant' = [variant EXCEPT ![t] = Interpret(updated)]
                    /\ last' = Call("UpdateTransformParameters", t, arg, "ok",
                                    <<"GetParameters", "Add", "SetParameters",
                                      "Modified">>)
                    /\ UNCHANGED <<alive, pbuf, fbuf, past>>

UpdateTransformParameters(t, update, factor) ==
  /\ t \in alive
  /\ LET numberOfParameters == GetNumberOfParameters(t)
         arg == [NoArg EXCEPT !.update = update, !.factor = factor]
     IN  IF Len(update) # numberOfParameters
           THEN /\ last' = Call("UpdateTransformParameters", t, arg,
                                "SizeError", <<>>)
                /\ UNCHANGED <<alive, pbuf, fbuf, mem, past, variant>>
           ELSE LET updated == AddUpdate(GetParameters(t), update, factor)
                IN  /\ InRange(updated)
                    /\ mem' = [mem EXCEPT ![pbuf[t]] = updated]
                    /\ variant' = [variant EXCEPT ![t] = Interpret(updated)]
                    /\ last' = Call("UpdateTransformParameters", t, arg, "ok",
                                    <<"GetParameters", "Add", "SetParameters",
                                      "Modified">>)
                    /\ UNCHANGED <<alive, pbuf, fbuf, past>>

\* std::copy(begin, end, dst): the elements of the range [begin, end), data,
\* are written one after the other from the first element of the block on.
\* StdCopy is the block afterwards; the elements that do not fit in the
\* block are written behind its end, StdCopyPast many.
StdCopy(dst, data) ==
  [i \in 1..Len(dst) |-> IF i <= Len(data) THEN data[i] ELSE dst[i]]

StdCopyPast(dst, data) ==
  IF Len(data) > Len(dst) THEN Len(data) - Len(dst) ELSE 0

Max(a, b) == IF a > b THEN a ELSE b

\* CopyInParameters without the early return for an empty range.
CopyInParameters_NoEmptyCheck(t, begin, data) ==
  /\ t \in alive
  /\ LET arg == [NoArg EXCEPT !.update = data, !.begin = begin]
         b == pbuf[t]
         copy == begin # Ptr(b, 0)
         block == IF copy THEN StdCopy(mem[b], data) ELSE mem[b]
         over == IF copy THEN StdCopyPast(mem[b], data) ELSE 0
     IN  /\ mem' = [mem EXCEPT ![b] = block]
         /\ past' = [past EXCEPT ![b] = Max(@, over)]
         /\ variant' = [variant EXCEPT ![t] = Interpret(block)]
         /\ last' = Call("CopyInParameters", t, arg, "ok",
                         IF copy THEN <<"Copy", "SetParameters">>
                                 ELSE <<"SetParameters">>)
         /\ UNCHANGED <<alive, pbuf, fbuf>>

\* CopyInParameters(begin, end), the range holding the elements `data`.
CopyInParameters(t, begin, data) ==
  /\ t \in alive
  /\ LET arg == [NoArg EXCEPT !.update = data, !.begin = begin]
         b == pbuf[t]
     IN  IF Len(data) = 0
           THEN /\ last' = Call("CopyInParameters", t, arg, "ok", <<>>)
                /\ UNCHANGED <<alive, pbuf, fbuf, mem, past, variant>>
           ELSE LET copy == begin # Ptr(b, 0)
                    block == IF copy THEN StdCopy(mem[b], data) ELSE mem[b]
                    over == IF copy THEN StdCopyPast(mem[b], data) ELSE 0
                IN  /\ mem' = [mem EXCEPT ![b] = block]
                    /\ past' = [past EXCEPT ![b] = Max(@, over)]
                    /\ variant' = [variant EXCEPT ![t] = Interpret(block)]
                    /\ last' = Call("CopyInParameters", t, arg, "ok",
                                    IF copy THEN <<"Copy", "SetParameters">>
                                            ELSE <<"SetParameters">>)
                    /\ UNCHANGED <<alive, pbuf, fbuf>>

\* CopyInFixedParameters(begin, end), the range holding the elements `data`.
CopyInFixedParameters(t, begin, data) ==
  /\ t \in alive
  /\ LET arg == [NoArg EXCEPT !.update = data, !.begin = begin]
         b == fbuf[t]
     IN  IF Len(data) = 0
           THEN /\ last' = Call("CopyInFixedParameters", t, arg, "ok", <<>>)
                /\ UNCHANGED <<alive, pbuf, fbuf, mem, past, variant>>
           ELSE LET copy == begin # Ptr(b, 0)
                    block == IF copy THEN StdCopy(mem[b], data) ELSE mem[b]
                    over == IF copy THEN StdCopyPast(mem[b], data) ELSE 0
                IN  /\ mem' = [mem EXCEPT ![b] = block]
                    /\ past' = [past EXCEPT ![b] = Max(@, over)]
                    /\ last' = Call("CopyInFixedParameters", t, arg, "ok",
                                    IF copy
                                      THEN <<"Copy", "SetFixedParameters">>
                                      ELSE <<"SetFixedParameters">>)
                    /\ UNCHANGED <<alive, pbuf, fbuf, variant>>

\* InternalClone handing the new object this object's data blocks instead
\* of copies of them.
InternalClone_Shallow(t) ==
  /\ t \in alive
  /\ "clone" \notin alive
  /\ alive' = alive \cup {"clone"}
  /\ pbuf' = [pbuf EXCEPT !["clone"] = pbuf[t]]
  /\ fbuf' = [fbuf EXCEPT !["clone"] = fbuf[t]]
  /\ mem' = [mem EXCEPT ![pbuf[t]] = GetParameters(t)]
  /\ variant' = [variant EXCEPT !["clone"] = Interpret(GetParameters(t))]
  /\ last' = Call("InternalClone", t, NoArg, "ok",
                  <<"SetFixedParameters", "SetParameters">>)
  /\ UNCHANGED past

\* InternalClone: Superclass::InternalClone() constructs another object of
\* the same class (the downcast cannot fail), which is then given this
\* object's fixed parameters and parameters.  The variant's SetParameters
\* and SetFixedParameters copy the vector into the new object's own block.
InternalClone(t) ==
  /\ t \in alive
  /\ "clone" \notin alive
  /\ alive' = alive \cup {"clone"}
  /\ pbuf' = [pbuf EXCEPT !["clone"] = "Pc"]
  /\ fbuf' = [fbuf EXCEPT !["clone"] = "Fc"]
  /\ mem' = [mem EXCEPT ![pbuf[t]] = GetParameters(t),
                        !["Fc"] = GetFixedParameters(t),
                        !["Pc"] = GetParameters(t)]
  /\ variant' = [variant EXCEPT !["clone"] = Interpret(GetParameters(t))]
  /\ last' = Call("InternalClone", t, NoArg, "ok",
                  <<"SetFixedParameters", "SetParameters">>)
  /\ UNCHANGED past

\* ------------------------------------------------------- the update protocol
SetValues == {0, 1, 3}
ParameterVectors == {<<a, b>> : a \in SetValues, b \in SetValues}
UpdateValues == {1, MaxAbs}
\* Updates of the right length, and one shorter and one longer update.
UpdateVectors ==
  [1..ParametersDimension -> UpdateValues]
    \cup {[k \in 1..n |-> 1] :
            n \in {ParametersDimension - 1, ParametersDimension + 1}}
Factors == {1, -1, 2}

Next ==
  \/ \E p \in ParameterVectors : SetParameters("orig", p) /\ prev' = last
       /\ UNCHANGED <<thr, image>>
  \/ \E o \in {0, 1} : SetOffset("orig", o) /\ prev' = last
       /\ UNCHANGED <<thr, image>>
  \/ \E u \in UpdateVectors, f \in Factors :
       UpdateTransformParameters("orig", u, f) /\ prev' = last
       /\ UNCHANGED <<thr, image>>

Spec == Init /\ [][Next]_vars

\* --------------------------------------------------------- the copy protocol
\* The caller's arrays handed to CopyInParameters and CopyInFixedParameters:
\* empty, shorter than, as long as and longer than the parameters.
ExtArrays == {[k \in 1..n |-> k] : n \in 0..(ParametersDimension + 1)}

\* The ranges inside block b that begin at one of the offsets `offs`, the
\* empty ones left out when `whole`.
BlockRanges(b, offs, whole) ==
  UNION {{<<Ptr(b, off), SubSeq(mem[b], off + 1, off + n)>> :
            n \in (IF whole THEN Len(mem[b]) - off ELSE 0)..(Len(mem[b]) - off)} :
          off \in {o \in offs : o <= Len(mem[b])}}

\* The ranges a caller passes: one of its own arrays, or a range of a data
\* block of a live transform (the block of the object itself included).
SourceRanges(arrays, blocks, offs, whole) ==
  {<<Ptr("ext", 0), d>> : d \in arrays}
    \cup UNION {BlockRanges(b, offs, whole) : b \in blocks}

NextCopy ==
  \/ \E p \in {<<3, 0>>} : SetParameters("orig", p) /\ UNCHANGED <<prev, thr, image>>
  \/ \E f \in {<<0>>, <<3>>} :
       SetFixedParameters("orig", f) /\ UNCHANGED <<prev, thr, image>>
  \/ \E o \in {0} : SetOffset("orig", o) /\ UNCHANGED <<prev, thr, image>>
  \/ \E u \in {<<1, 0>>, <<1>>}, f \in {1, -1} :
       UpdateTransformParameters("orig", u, f) /\ UNCHANGED <<prev, thr, image>>
  \/ \E r \in SourceRanges(ExtArrays, {pbuf["orig"]}, 0..1, FALSE) :
       CopyInParameters("orig", r[1], r[2]) /\ UNCHANGED <<prev, thr, image>>
  \/ \E r \in SourceRanges(ExtArrays, {fbuf["orig"]}, 0..1, FALSE) :
       CopyInFixedParameters("orig", r[1], r[2]) /\ UNCHANGED <<prev, thr, image>>

SpecCopy == Init /\ [][NextCopy]_vars

\* ------------------------------------------------------------------ cloning
NextClone ==
  \/ InternalClone("orig") /\ UNCHANGED <<prev, thr, image>>
  \/ \E t \in Transforms, p \in {<<1, 3>>} :
       SetParameters(t, p) /\ UNCHANGED <<prev, thr, image>>
  \/ \E t \in Transforms, f \in {<<1>>} :
       SetFixedParameters(t, f) /\ UNCHANGED <<prev, thr, image>>
  \/ \E t \in Transforms, o \in {0} : SetOffset(t, o) /\ UNCHANGED <<prev, thr, image>>
  \/ \E t \in Transforms, u \in {<<MaxAbs, 0>>} :
       UpdateTransformParameters(t, u, 1) /\ UNCHANGED <<prev, thr, image>>
  \/ \E t \in Transforms,
        r \in SourceRanges({<<2>>}, {pbuf[x] : x \in alive}, {0}, TRUE) :
       CopyInParameters(t, r[1], r[2]) /\ UNCHANGED <<prev, thr, image>>
  \/ \E t \in Transforms,
        r \in SourceRanges({<<2>>}, {fbuf[x] : x \in alive}, {0}, TRUE) :
       CopyInFixedParameters(t, r[1], r[2]) /\ UNCHANGED <<prev, thr, image>>

SpecClone == Init /\ [][NextClone]_vars

\* ------------------------------------------------------------ linear algebra
Rows(A) == Len(A)
Cols(A) == Len(A[1])

Transpose(A) == [j \in 1..Cols(A) |-> [i \in 1..Rows(A) |-> A[i][j]]]

\* The product of two matrices in exact arithmetic.
RECURSIVE ExactSum(_, _)
ExactSum(f, n) == IF n = 0 THEN 0 ELSE ExactSum(f, n - 1) + f[n]

ExactMul(A, B) ==
  [i \in 1..Rows(A) |-> [j \in 1..Cols(B) |->
     ExactSum([k \in 1..Cols(A) |-> A[i][k] * B[k][j]], Cols(A))]]

\* data_block(): the elements of a matrix, row after row.
DataBlock(A) ==
  [k \in 1..(Rows(A) * Cols(A)) |->
     A[((k - 1) \div Cols(A)) + 1][((k - 1) % Cols(A)) + 1]]

\* set(block) on a matrix of `rows` rows and `cols` columns.
SetBlock(block, rows, cols) ==
  [i \in 1..rows |-> [j \in 1..cols |-> block[(i - 1) * cols + j]]]

\* result += term, in TParametersValueType, from zero, term after term.
RECURSIVE Accumulate(_, _)
Accumulate(term, n) ==
  IF n = 0 THEN 0 ELSE FAdd(Accumulate(term, n - 1), term[n])

\* ---------------------------------------------------------- Jacobian engine
\* ComputeJacobianWithRespectToPosition(point, jacobian) of the variant: the
\* OutputDimension x InputDimension matrix of partial derivatives at point.
\* The variant shears the first coordinate by shear * y + fixed; its offset
\* is a translation and has no part in the Jacobian.
ShearAt(t, point) ==
  FAdd(FMul(variant[t].shear, point[2]),
       IF Len(GetFixedParameters(t)) = 0 THEN 0 ELSE GetFixedParameters(t)[1])

JacobianOfShear(sh) ==
  [i \in 1..OutputDimension |-> [j \in 1..InputDimension |->
     IF i = j THEN 1 ELSE IF i = 1 /\ j = 2 THEN sh ELSE 0]]

ComputeJacobianWithRespectToPosition(t, point) ==
  JacobianOfShear(ShearAt(t, point))

\* The inverse of a 2 x 2 matrix of whole numbers whose determinant divides
\* its elements.
Inverse2x2(G) ==
  LET det == G[1][1] * G[2][2] - G[1][2] * G[2][1]
  IN  <<<<G[2][2] \div det, (-G[1][2]) \div det>>,
        <<(-G[2][1]) \div det, G[1][1] \div det>>>>

\* vnl_svd_fixed<T, rows, cols>(A).inverse(): the Moore-Penrose pseudo
\* inverse, a matrix of cols rows and rows columns; for A with InputDimension
\* = 2 independent columns it is (A^T A)^-1 A^T.
SvdInverse(A) ==
  ExactMul(Inverse2x2(ExactMul(Transpose(A), A)), Transpose(A))

\* The inverse taken for a matrix of the shape of the forward Jacobian.
ComputeInverseJacobianWithRespectToPosition_OutputByInput(t, pnt) ==
  LET forward_jacobian == ComputeJacobianWithRespectToPosition(t, pnt)
  IN  SetBlock(DataBlock(Transpose(SvdInverse(forward_jacobian))),
               InputDimension, OutputDimension)

\* ComputeInverseJacobianWithRespectToPosition(pnt, jacobian): the forward
\* Jacobian, its SVD, and jacobian.set(svd.inverse().data_block()) on the
\* InputDimension x OutputDimension matrix jacobian.
ComputeInverseJacobianWithRespectToPosition(t, pnt) ==
  LET forward_jacobian == ComputeJacobianWithRespectToPosition(t, pnt)
  IN  SetBlock(DataBlock(SvdInverse(forward_jacobian)),
               InputDimension, OutputDimension)

\* ------------------------------------------- vectors and covariant vectors
\* TransformVector(const InputVectorType &, point), after the Jacobian.
TransformVector(jacobian, vector) ==
  [i \in 1..OutputDimension |->
     Accumulate([j \in 1..InputDimension |->
                   FMul(jacobian[i][j], vector[j])], InputDimension)]

\* TransformVector(const InputVnlVectorType &, point), after the Jacobian.
TransformVector_Vnl(jacobian, vector) ==
  [i \in 1..OutputDimension |->
     Accumulate([j \in 1..InputDimension |->
                   FMul(jacobian[i][j], vector[j])], InputDimension)]

\* The vector moved by the transform's offset as a point would be.
TransformVector_Pixel_Translated(jacobian, vector) ==
  [i \in 1..OutputDimension |->
     FAdd(Accumulate([j \in 1..InputDimension |->
                        FMul(jacobian[i][j], vector[j])], InputDimension),
          variant["orig"].offset)]

\* TransformVector(const InputVectorPixelType &, point), after the size
\* check and the Jacobian: result.SetSize(VOutputDimension) and the loops.
TransformVector_Pixel(jacobian, vector) ==
  [i \in 1..OutputDimension |->
     Accumulate([j \in 1..InputDimension |->
                   FMul(jacobian[i][j], vector[j])], InputDimension)]

\* TransformCovariantVector(const InputCovariantVectorType &, point), after
\* the inverse Jacobian.
TransformCovariantVector(jacobian, vector) ==
  [i \in 1..OutputDimension |->
     Accumulate([j \in 1..InputDimension |->
                   FMul(jacobian[j][i], vector[j])], InputDimension)]

\* TransformCovariantVector(const InputVectorPixelType &, point), after the
\* size check and the inverse Jacobian.
TransformCovariantVector_Pixel(jacobian, vector) ==
  [i \in 1..OutputDimension |->
     Accumulate([j \in 1..InputDimension |->
                   FMul(jacobian[j][i], vector[j])], InputDimension)]

\* ------------------------------------------------------------------ tensors
\* The product of two matrices in TParametersValueType.
MatMul(A, B) ==
  [i \in 1..Rows(A) |-> [j \in 1..Cols(B) |->
     Accumulate([k \in 1..Cols(A) |-> FMul(A[i][k], B[k][j])], Cols(A))]]

MatVec(A, v) ==
  [i \in 1..Rows(A) |->
     Accumulate([k \in 1..Cols(A) |-> FMul(A[i][k], v[k])], Cols(A))]

\* The place of element (i, j) among the dim (dim + 1) / 2 stored elements
\* of a symmetric tensor (rows and columns counted from 1).
SymIndex(i, j, dim) ==
  LET r == (IF i < j THEN i ELSE j) - 1
      c == (IF i < j THEN j ELSE i) - 1
  IN  r * dim + c - ((r * (r + 1)) \div 2) + 1

\* ComputeEigenAnalysis: the eigenvalues in ascending order and a matrix
\* whose row k is a unit eigenvector of eigenvalue k.  The tensors of the
\* model are diagonal, their eigenvectors the coordinate axes; the sign of
\* an eigenvector is the routine's choice.
SignedAxes ==
  {[i \in 1..3 |-> IF i = a THEN sg ELSE 0] : a \in 1..3, sg \in {1, -1}}

Dot(a, b) == a[1] * b[1] + a[2] * b[2] + a[3] * b[3]

EigenAnalyses(tensor) ==
  LET Image(M, v) == <<Dot(M[1], v), Dot(M[2], v), Dot(M[3], v)>>
      \* The signed axes that are eigenvectors, each with its eigenvalue.
      EigenPairs(M) ==
        {p \in {<<v, Dot(v, Image(M, v))>> : v \in SignedAxes} :
           Image(M, p[1]) = <<p[2] * p[1][1], p[2] * p[1][2], p[2] * p[1][3]>>}
      \* Orthogonal rows, eigenvalues ascending: row after row.
      Rows3(E) ==
        UNION {UNION {{<<a, b, c>> :
                         c \in {z \in E : /\ Dot(a[1], z[1]) = 0
                                          /\ Dot(b[1], z[1]) = 0
                                          /\ b[2] <= z[2]}} :
                        b \in {y \in E : Dot(a[1], y[1]) = 0 /\ a[2] <= y[2]}} :
                 a \in E}
  IN  {[eigenValues |-> <<V[1][2], V[2][2], V[3][2]>>,
        eigenVectors |-> <<V[1][1], V[2][1], V[3][1]>>] :
         V \in UNION {Rows3(EigenPairs(M)) :
                        M \in {<<<<tensor[1], tensor[2], tensor[3]>>,
                                 <<tensor[2], tensor[4], tensor[5]>>,
                                 <<tensor[3], tensor[5], tensor[6]>>>>}}}

\* Normalize() leaving the vector as it is.
Normalize_Unscaled(v) == <<v[1], v[2], v[3]>>

\* Vector::Normalize() on a vector of 3 elements: the vector divided by its
\* norm.  In the model the norm is a whole number that divides the elements.
Normalize(v) ==
  LET Root(n2) == CHOOSE r \in 0..n2 : r * r = n2
      Divided(norm) == <<v[1] \div norm, v[2] \div norm, v[3] \div norm>>
  IN  Only({Divided(norm) :
              norm \in {Root(Accumulate([i \in 1..3 |-> FMul(v[i], v[i])],
                                        3))}})

CrossProduct(a, b) ==
  <<FAdd(FMul(a[2], b[3]), -FMul(a[3], b[2])),
    FAdd(FMul(a[3], b[1]), -FMul(a[1], b[3])),
    FAdd(FMul(a[1], b[2]), -FMul(a[2], b[1]))>>

\* PreservationOfPrincipalDirectionDiffusionTensor3DReorientation(
\* inputTensor, jacobian), with the eigen analysis `eig` of inputTensor.
PreservationOfPrincipalDirectionDiffusionTensor3DReorientation(eig, jacobian) ==
  LET matrix == [i \in 1..3 |-> [j \in 1..3 |->
                   IF i <= InputDimension /\ j <= OutputDimension
                     THEN jacobian[i][j]
                     ELSE IF i = j THEN 1 ELSE 0]]
      Apply(v) == LET w == MatVec(matrix, v) IN <<w[1], w[2], w[3]>>
      Orthogonalized(ev1, ev2m, dp0) ==
        LET ev2f == IF dp0 < 0 THEN [i \in 1..3 |-> FMul(ev2m[i], -1)]
                               ELSE ev2m
            dp == IF dp0 < 0 THEN FMul(dp0, -1) ELSE dp0
        IN  Normalize([i \in 1..3 |-> FAdd(ev2f[i], -FMul(ev1[i], dp))])
      SecondDirection(ev1) ==
        Only({Only({Orthogonalized(ev1, ev2m, dp0) :
                      dp0 \in {Accumulate([i \in 1..3 |->
                                             FMul(ev2m[i], ev1[i])], 3)}}) :
                ev2m \in {Apply(eig.eigenVectors[2])}})
      Outer(lambda, v, i, j) == FMul(FMul(lambda, v[i]), v[j])
      Rotated(ev1, ev2, ev3) ==
        LET R(i, j) == FAdd(FAdd(Outer(eig.eigenValues[3], ev1, i, j),
                                 Outer(eig.eigenValues[2], ev2, i, j)),
                            Outer(eig.eigenValues[1], ev3, i, j))
        IN  <<R(1, 1), R(1, 2), R(1, 3), R(2, 2), R(2, 3), R(3, 3)>>
  IN  Only({Only({Only({Rotated(ev1, ev2, ev3) :
                          ev3 \in {CrossProduct(ev1, ev2)}}) :
                    ev2 \in {SecondDirection(ev1)}}) :
              ev1 \in {Normalize(Apply(eig.eigenVectors[3]))}})

\* TransformDiffusionTensor3D(const InputDiffusionTensor3DType &, point),
\* after the inverse Jacobian.
TransformDiffusionTensor3D(eig, invJacobian) ==
  PreservationOfPrincipalDirectionDiffusionTensor3DReorientation(
    eig, invJacobian)

\* The values an element can hold that no statement has written: the sixth
\* element of inTensor and of outputTensor in the overload below.
Indeterminate == {0, 2}

\* inTensor of TransformDiffusionTensor3D(const InputVectorPixelType &,
\* point): the first five elements of inputTensor, the sixth left as it was.
InTensor(inputTensor, sixth) ==
  [i \in 1..6 |-> IF i <= 5 THEN inputTensor[i] ELSE sixth]

\* outputTensor of that overload: the first five elements of outTensor, the
\* sixth left as SetSize(6) allocated it.
OutputTensor(outTensor, sixth) ==
  [i \in 1..6 |-> IF i <= 5 THEN outTensor[i] ELSE sixth]

\* The writes outputTensor(i, j) = outTensor(i, j) of
\* TransformSymmetricSecondRankTensor, in the order of the loops: n of them
\* done, on the stored elements of a symmetric tensor.
RECURSIVE SymmetricWrites(_, _, _)
SymmetricWrites(outTensor, n, dim) ==
  IF n = 0
    THEN [k \in 1..((dim * (dim + 1)) \div 2) |-> 0]
    ELSE LET i == ((n - 1) \div dim) + 1
             j == ((n - 1) % dim) + 1
         IN  [SymmetricWrites(outTensor, n - 1, dim)
                EXCEPT ![SymIndex(i, j, dim)] = outTensor[i][j]]

\* TransformSymmetricSecondRankTensor(
\* const InputSymmetricSecondRankTensorType &, point), after the Jacobians.
TransformSymmetricSecondRankTensor(jacobian, invJacobian, inputTensor) ==
  LET tensor == [i \in 1..InputDimension |-> [j \in 1..InputDimension |->
                   inputTensor[SymIndex(i, j, InputDimension)]]]
      outTensor == MatMul(MatMul(jacobian, tensor), invJacobian)
  IN  SymmetricWrites(outTensor, OutputDimension * OutputDimension,
                      OutputDimension)

\* TransformSymmetricSecondRankTensor(const InputVectorPixelType &, point),
\* after the size check and the Jacobians.
TransformSymmetricSecondRankTensor_Pixel(jacobian, invJacobian, inputTensor) ==
  LET tensor == [i \in 1..InputDimension |-> [j \in 1..InputDimension |->
                   inputTensor[(j - 1) + InputDimension * (i - 1) + 1]]]
      outTensor == MatMul(MatMul(jacobian, tensor), invJacobian)
  IN  [k \in 1..(OutputDimension * OutputDimension) |->
         outTensor[((k - 1) \div OutputDimension) + 1]
                  [((k - 1) % OutputDimension) + 1]]

\* ------------------------------------------------- read-only evaluations
VectorOps == {"TransformVector", "TransformVector_Vnl",
              "TransformVector_Pixel"}
CovariantOps == {"TransformCovariantVector", "TransformCovariantVector_Pixel"}
DiffusionOps == {"TransformDiffusionTensor3D",
                 "TransformDiffusionTensor3D_Pixel"}
SymmetricOps == {"TransformSymmetricSecondRankTensor",
                 "TransformSymmetricSecondRankTensor_Pixel"}
InverseOps == {"ComputeInverseJacobianWithRespectToPosition"}

\* The size check a variable-length overload begins with.
SizeMismatch(op, arg) ==
  CASE op = "TransformVector_Pixel" -> Len(arg) # InputDimension
    [] op = "TransformCovariantVector_Pixel" -> Len(arg) # InputDimension
    [] op = "TransformDiffusionTensor3D_Pixel" -> Len(arg) # 6
    [] op = "TransformSymmetricSecondRankTensor_Pixel" ->
         Len(arg) # InputDimension * InputDimension
    [] OTHER -> FALSE

\* The Jacobians an operation computes into variables of the call.
JacobianOf(op, point) ==
  IF op \in VectorOps \cup SymmetricOps
    THEN ComputeJacobianWithRespectToPosition("orig", point)
    ELSE <<>>

InverseJacobianOf(op, point) ==
  IF op \in CovariantOps \cup DiffusionOps \cup SymmetricOps \cup InverseOps
    THEN ComputeInverseJacobianWithRespectToPosition("orig", point)
    ELSE <<>>

\* The Jacobians computed before the size of the argument is looked at.
Begin_JacobianFirst(h, op, arg, point) ==
  /\ thr[h].pc = "idle"
  /\ thr' = [thr EXCEPT ![h] =
       [Idle EXCEPT
          !.pc = IF SizeMismatch(op, arg) THEN "done" ELSE "compute",
          !.outcome = IF SizeMismatch(op, arg) THEN "SizeError" ELSE "none",
          !.op = op, !.arg = arg, !.point = point,
          !.found = Found("orig"),
          !.jacobian = JacobianOf(op, point),
          !.invJacobian = InverseJacobianOf(op, point)]]
  /\ UNCHANGED <<alive, pbuf, fbuf, mem, past, variant, last, prev, image>>

\* The Jacobians kept in one place for all the calls: a call that computes
\* them replaces those of the calls that are running.
Begin_SharedJacobian(h, op, arg, point) ==
  /\ thr[h].pc = "idle"
  /\ thr' = [g \in Threads |->
       IF g = h
         THEN IF SizeMismatch(op, arg)
                THEN [Idle EXCEPT !.pc = "done", !.op = op, !.arg = arg,
                                  !.point = point, !.outcome = "SizeError",
                                  !.found = Found("orig")]
                ELSE [Idle EXCEPT
                        !.pc = "compute", !.op = op, !.arg = arg,
                        !.point = point, !.found = Found("orig"),
                        !.jacobian = JacobianOf(op, point),
                        !.invJacobian = InverseJacobianOf(op, point)]
         ELSE IF thr[g].pc = "compute" /\ ~SizeMismatch(op, arg)
                THEN [thr[g] EXCEPT
                        !.jacobian =
                          IF @ # <<>> /\ JacobianOf(op, point) # <<>>
                            THEN JacobianOf(op, point) ELSE @,
                        !.invJacobian =
                          IF @ # <<>> /\ InverseJacobianOf(op, point) # <<>>
                            THEN InverseJacobianOf(op, point) ELSE @]
                ELSE thr[g]]
  /\ UNCHANGED <<alive, pbuf, fbuf, mem, past, variant, last, prev, image>>

\* Thread h calls op(arg, point) on the transform: the size check of a
\* variable-length overload, then the Jacobians the operation asks for.
Begin(h, op, arg, point) ==
  /\ thr[h].pc = "idle"
  /\ thr' = [thr EXCEPT ![h] =
       IF SizeMismatch(op, arg)
         THEN [Idle EXCEPT !.pc = "done", !.op = op, !.arg = arg,
                           !.point = point, !.outcome = "SizeError",
                           !.found = Found("orig")]
         ELSE [Idle EXCEPT
                 !.pc = "compute", !.op = op, !.arg = arg, !.point = point,
                 !.found = Found("orig"),
                 !.jacobian = JacobianOf(op, point),
                 !.invJacobian = InverseJacobianOf(op, point)]]
  /\ UNCHANGED <<alive, pbuf, fbuf, mem, past, variant, last, prev, image>>

\* What a call returns: the results of the statements after the Jacobians,
\* one for every choice the code leaves open (the signs of the
\* eigenvectors, the elements that are read or returned unwritten).
Evaluate(c) ==
  CASE c.op = "TransformVector" -> {TransformVector(c.jacobian, c.arg)}
    [] c.op = "TransformVector_Vnl" ->
         {TransformVector_Vnl(c.jacobian, c.arg)}
    [] c.op = "TransformVector_Pixel" ->
         {TransformVector_Pixel(c.jacobian, c.arg)}
    [] c.op = "TransformCovariantVector" ->
         {TransformCovariantVector(c.invJacobian, c.arg)}
    [] c.op = "TransformCovariantVector_Pixel" ->
         {TransformCovariantVector_Pixel(c.invJacobian, c.arg)}
    [] c.op = "ComputeInverseJacobianWithRespectToPosition" ->
         {c.invJacobian}
    [] c.op = "TransformDiffusionTensor3D" ->
         {TransformDiffusionTensor3D(eig, c.invJacobian) :
            eig \in EigenAnalyses(c.arg)}
    [] c.op = "TransformDiffusionTensor3D_Pixel" ->
         {OutputTensor(out, outSixth) :
            out \in UNION {{TransformDiffusionTensor3D(eig, c.invJacobian) :
                              eig \in EigenAnalyses(InTensor(c.arg, inSixth))} :
                             inSixth \in Indeterminate},
            outSixth \in Indeterminate}
    [] c.op = "TransformSymmetricSecondRankTensor" ->
         {TransformSymmetricSecondRankTensor(c.jacobian, c.invJacobian,
                                             c.arg)}
    [] c.op = "TransformSymmetricSecondRankTensor_Pixel" ->
         {TransformSymmetricSecondRankTensor_Pixel(c.jacobian, c.invJacobian,
                                                   c.arg)}

\* Thread h runs the rest of its call and returns the result.
Compute(h) ==
  /\ thr[h].pc = "compute"
  /\ \E r \in Evaluate(thr[h]) :
       thr' = [thr EXCEPT ![h] = [@ EXCEPT !.pc = "done", !.outcome = "ok",
                                           !.result = r]]
  /\ UNCHANGED <<alive, pbuf, fbuf, mem, past, variant, last, prev, image>>

\* The caller of thread h has taken the result, or caught the exception.
Return(h) ==
  /\ thr[h].pc = "done"
  /\ thr' = [thr EXCEPT ![h] = Idle]
  /\ UNCHANGED <<alive, pbuf, fbuf, mem, past, variant, last, prev, image>>

\* No evaluation is running: the callers let a mutator run only then.
Quiescent == \A h \in Threads : thr[h].pc = "idle"

Points == {<<0, 0>>, <<1, 1>>}
Vectors == {<<1, 0>>, <<1, 2>>, <<2, 3>>}
PixelVectors == Vectors \cup {<<1>>, <<1, 2, 3>>}
\* Diffusion tensors (xx, xy, xz, yy, yz, zz): diagonal, with eigenvalues
\* that differ.
DiffusionTensors == {<<3, 0, 0, 1, 0, 2>>, <<3, 0, 0, 2, 0, 1>>,
                     <<2, 0, 0, 1, 0, 3>>}
PixelDiffusionTensors == {<<3, 0, 0, 1, 0, 2>>, <<3, 0, 0, 1, 0>>,
                          <<3, 0, 0, 1, 0, 2, 0>>}
\* Symmetric tensors of the input space, (xx, xy, yy), and flattened.
SymmetricTensors == {<<1, 0, 2>>, <<1, 1, 0>>, <<2, 1, 1>>}
PixelSymmetricTensors == {<<1, 0, 0, 2>>, <<1, 1, 1, 0>>, <<2, 1, 1, 1>>,
                          <<1, 1, 0>>, <<1, 0, 0, 2, 0>>}

\* The calls one thread makes.
Calls ==
  ({"TransformVector", "TransformVector_Vnl", "TransformCovariantVector"}
     \X Vectors)
  \cup ({"TransformVector_Pixel", "TransformCovariantVector_Pixel"}
          \X PixelVectors)
  \cup ({"ComputeInverseJacobianWithRespectToPosition"} \X {<<>>})
  \cup ({"TransformDiffusionTensor3D"} \X DiffusionTensors)
  \cup ({"TransformDiffusionTensor3D_Pixel"} \X PixelDiffusionTensors)
  \cup ({"TransformSymmetricSecondRankTensor"} \X SymmetricTensors)
  \cup ({"TransformSymmetricSecondRankTensor_Pixel"}
          \X PixelSymmetricTensors)

NextEval ==
  \/ \E c \in Calls, pt \in Points : Begin(1, c[1], c[2], pt)
  \/ Compute(1)
  \/ Return(1)
  \/ \E p \in {<<1, 3>>, <<2, 1>>} :
       Quiescent /\ SetParameters("orig", p) /\ UNCHANGED <<prev, thr, image>>
  \/ \E f \in {<<1>>} :
       Quiescent /\ SetFixedParameters("orig", f) /\ UNCHANGED <<prev, thr, image>>

SpecEval == Init /\ [][NextEval]_vars

\* The calls of the threads that evaluate the transform at the same time:
\* operation, argument and point.
ThreadCalls ==
  {<<"TransformVector", <<1, 2>>, <<1, 1>>>>,
   <<"TransformVector", <<1, 2>>, <<0, 0>>>>,
   <<"TransformCovariantVector", <<1, 2>>, <<0, 0>>>>,
   <<"ComputeInverseJacobianWithRespectToPosition", <<>>, <<1, 1>>>>,
   <<"TransformDiffusionTensor3D_Pixel", <<3, 0, 0, 1, 0, 2>>, <<0, 0>>>>,
   <<"TransformSymmetricSecondRankTensor", <<1, 1, 0>>, <<1, 1>>>>}

NextThreads ==
  \/ \E h \in Threads, c \in ThreadCalls : Begin(h, c[1], c[2], c[3])
  \/ \E h \in Threads : Compute(h)
  \/ \E h \in Threads : Return(h)
  \/ \E p \in {<<2, 1>>} :
       Quiescent /\ SetParameters("orig", p) /\ UNCHANGED <<prev, thr, image>>
  \/ \E f \in {<<1>>} :
       Quiescent /\ SetFixedParameters("orig", f) /\ UNCHANGED <<prev, thr, image>>

SpecThreads == Init /\ [][NextThreads]_vars

\* ------------------------------------------------------- the reorientation
\* PreservationOfPrincipalDirectionDiffusionTensor3DReorientation as a
\* function of its two arguments: thread h calls it with a tensor and an
\* InputDimension x OutputDimension matrix and has the result.
Reorient(h, inputTensor, jacobian) ==
  /\ thr[h].pc = "idle"
  /\ \E eig \in EigenAnalyses(inputTensor) :
       thr' = [thr EXCEPT ![h] =
         [Idle EXCEPT
            !.pc = "done", !.outcome = "ok",
            !.op = "PreservationOfPrincipalDirectionDiffusionTensor3DReorientation",
            !.arg = inputTensor, !.invJacobian = jacobian,
            !.found = Found("orig"),
            !.result =
              PreservationOfPrincipalDirectionDiffusionTensor3DReorientation(
                eig, jacobian)]]
  /\ UNCHANGED <<alive, pbuf, fbuf, mem, past, variant, last, prev, image>>

\* Positive definite diagonal tensors with the eigenvalues 1, 2, 3 on the
\* axes in every order.
DiagonalTensors ==
  {<<d[1], 0, 0, d[2], 0, d[3]>> :
     d \in {e \in [1..3 -> 1..3] : {e[1], e[2], e[3]} = 1..3}}

\* Matrices that turn, mirror and stretch the first two axes.
ScaleValues == {1, -1, 2, -2}
AxisMatrices ==
  {<<<<a, 0, 0>>, <<0, e, 0>>>> : a \in ScaleValues, e \in ScaleValues}
    \cup {<<<<0, b, 0>>, <<d, 0, 0>>>> : b \in ScaleValues, d \in ScaleValues}

\* Matrices that shear the second axis along the first, turned or not.
ShearMatrices ==
  {<<<<1, -sh, 0>>, <<0, 1, 0>>>> : sh \in 1..2}
    \cup {<<<<0, -1, 0>>, <<1, sh, 0>>>> : sh \in 1..2}

\* The calls whose vectors keep whole norms: every tensor with the axis
\* matrices, and with the shear matrices the tensors whose two largest
\* eigenvalues are not on the sheared axis first.
ReorientCalls ==
  (DiagonalTensors \X AxisMatrices) \cup (DiffusionTensors \X ShearMatrices)

NextReorient ==
  \/ \E c \in ReorientCalls : Reorient(1, c[1], c[2])
  \/ Return(1)

SpecReorient == Init /\ [][NextReorient]_vars

\* ------------------------------------------------- the metadata projector
\* ApplyToImageMetadata exists where ImageDimension == VInputDimension ==
\* VOutputDimension: the transform is the instantiation of the variant that
\* maps the plane to itself, (x, y) to (x + s * y + offset, y) with the
\* shear s of ShearAt.

\* IsLinear(): the Jacobian of the variant is the same at every point.
IsLinear(t) == variant[t].shear = 0

\* GetInverseTransform(): a transform object of its own that maps back.
GetInverseTransform(t) ==
  [shear |-> variant[t].shear,
   fixed |-> IF Len(GetFixedParameters(t)) = 0 THEN 0
             ELSE GetFixedParameters(t)[1],
   offset |-> variant[t].offset]

\* inverse->TransformPoint(point).
InverseTransformPoint(inverse, point) ==
  LET sh == FAdd(FMul(inverse.shear, point[2]), inverse.fixed)
  IN  <<FAdd(FAdd(point[1], -FMul(sh, point[2])), -inverse.offset), point[2]>>

\* inverse->TransformVector(vector), the overload without a point: the
\* differential of the inverse, taken at the origin of the coordinates.
InverseTransformVector(inverse, vector) ==
  <<FAdd(vector[1], -FMul(inverse.fixed, vector[2])), vector[2]>>

\* The square root and the quotient in the value type: the nearest
\* representable whole number, ties to even.
NearestRoot(n) ==
  LET r == CHOOSE q \in 0..n : q * q <= n /\ n < (q + 1) * (q + 1)
  IN  IF n - r * r <= r THEN r ELSE r + 1

NearestQuotient(a, b) ==
  LET q   == Abs(a) \div b
      rem == Abs(a) % b
      mag == IF 2 * rem < b THEN q
             ELSE IF 2 * rem > b THEN q + 1
             ELSE IF q % 2 = 0 THEN q ELSE q + 1
  IN  Round(IF a < 0 THEN -mag ELSE mag)

\* Vector::GetNorm() of a vector of ImageDimension elements.
GetNorm(v) == Round(NearestRoot(FAdd(FMul(v[1], v[1]), FMul(v[2], v[2]))))

\* One turn of the loop over the axes: the column i of the direction times
\* spacing[i], mapped by the inverse; Normalize() returns its norm and leaves
\* the vector divided by it.
ProjectAxis(inverse, spacing, direction, i) ==
  LET scaled == <<FMul(direction[1][i], spacing[i]),
                  FMul(direction[2][i], spacing[i])>>
      dirVector == InverseTransformVector(inverse, scaled)
      norm == GetNorm(dirVector)
  IN  [spacing |-> norm,
       dirVector |-> <<NearestQuotient(dirVector[1], norm),
                       NearestQuotient(dirVector[2], norm)>>]

\* The image descriptor after the three writes SetOrigin, SetDirection,
\* SetSpacing.
ProjectImage(inverse, im) ==
  LET axis == [i \in 1..ImageDimension |->
                 ProjectAxis(inverse, im.spacing, im.direction, i)]
  IN  [origin |-> InverseTransformPoint(inverse, im.origin),
       direction |-> [k \in 1..ImageDimension |->
                        [i \in 1..ImageDimension |-> axis[i].dirVector[k]]],
       spacing |-> [i \in 1..ImageDimension |-> axis[i].spacing]]

ImageInRange(im) ==
  /\ InRange(im.origin)
  /\ InRange(im.spacing)
  /\ \A i \in 1..ImageDimension : im.spacing[i] > 0

\* ApplyToImageMetadata giving up after the warning.
ApplyToImageMetadata_LinearOnly(t) ==
  /\ t \in alive
  /\ IF IsLinear(t)
       THEN /\ ImageInRange(ProjectImage(GetInverseTransform(t), image))
            /\ image' = ProjectImage(GetInverseTransform(t), image)
            /\ last' = Call("ApplyToImageMetadata", t, NoArg, "ok",
                            <<"GetInverseTransform", "SetOrigin",
                              "SetDirection", "SetSpacing">>)
       ELSE /\ image' = image
            /\ last' = Call("ApplyToImageMetadata", t, NoArg, "NotLinear",
                            <<"Warning">>)
  /\ UNCHANGED <<alive, pbuf, fbuf, mem, past, variant>>

\* ApplyToImageMetadata(image): the warning if the transform is not linear,
\* the inverse, the origin mapped and written, every axis mapped, the
\* direction written, the spacing written.
ApplyToImageMetadata(t) ==
  /\ t \in alive
  /\ LET inverse == GetInverseTransform(t)
         projected == ProjectImage(inverse, image)
         writes == <<"GetInverseTransform", "SetOrigin", "SetDirection",
                     "SetSpacing">>
     IN  /\ ImageInRange(projected)
         /\ image' = projected
         /\ last' = Call("ApplyToImageMetadata", t, NoArg, "ok",
                         IF IsLinear(t) THEN writes
                         ELSE <<"Warning">> \o writes)
  /\ UNCHANGED <<alive, pbuf, fbuf, mem, past, variant>>

\* The caller sets the geometry of the image.
SetImage(im) ==
  /\ image' = im
  /\ last' = Call("SetImage", "orig", NoArg, "ok", <<>>)
  /\ UNCHANGED <<alive, pbuf, fbuf, mem, past, variant>>

Images ==
  {[origin |-> o, spacing |-> sp, direction |-> d] :
     o \in {<<0, 0>>, <<1, 2>>},
     sp \in {<<1, 1>>, <<1, 2>>, <<2, 1>>},
     d \in {<<<<1, 0>>, <<0, 1>>>>, <<<<0, 1>>, <<1, 0>>>>,
            <<<<-1, 0>>, <<0, 1>>>>}}

NextImage ==
  \/ \E p \in {<<0, 0>>, <<0, 1>>, <<1, 0>>, <<1, 1>>} :
       SetParameters("orig", p) /\ UNCHANGED <<prev, thr, image>>
  \/ \E f \in {<<>>, <<1>>} :
       SetFixedParameters("orig", f) /\ UNCHANGED <<prev, thr, image>>
  \/ \E im \in Images : SetImage(im) /\ UNCHANGED <<prev, thr>>
  \/ ApplyToImageMetadata("orig") /\ UNCHANGED <<prev, thr>>

SpecImage == Init /\ [][NextImage]_vars

\* ------------------------------------------------------------------- claims
Parameters(t) == mem[pbuf[t]]
FixedParameters(t) == mem[fbuf[t]]
IsUpdate(c) == c.op = "UpdateTransformParameters"

\* C1: a call of UpdateTransformParameters whose update has not as many
\* elements as the transform has parameters ends with the size error, runs
\* neither SetParameters nor Modified, and changes no parameter, no member
\* variable of the variant and no data block.
C1_MismatchedUpdateFails ==
  [][(IsUpdate(last')
        /\ Len(last'.arg.update) # GetNumberOfParameters(last'.self))
       => /\ last'.outcome = "SizeError"
          /\ last'.events = <<>>
          /\ UNCHANGED <<alive, pbuf, fbuf, mem, past, variant>>]_vars

\* A mismatched update has failed on a transform whose parameters are not
\* the initial ones.
C1_Witness ==
  /\ IsUpdate(last)
  /\ last.outcome = "SizeError"
  /\ Len(last.arg.update) > GetNumberOfParameters(last.self)
  /\ Parameters(last.self) = <<3, 1>>

\* C2: after a call of UpdateTransformParameters with an update of the right
\* length, every parameter is what GetParameters returned before the call
\* plus update[k] * factor, the product and the sum taken in the parameters'
\* value type; with factor 1 this is the previous value plus update[k].
C2_UpdateAddsScaledUpdate ==
  [][\A t \in Transforms :
       (IsUpdate(last') /\ last'.self = t
          /\ Len(last'.arg.update) = GetNumberOfParameters(t))
         => /\ last'.outcome = "ok"
            /\ Len(Parameters(t)') = GetNumberOfParameters(t)
            /\ \A k \in 1..GetNumberOfParameters(t) :
                 /\ Parameters(t)'[k] =
                      FAdd(GetParameters(t)[k],
                           FMul(last'.arg.update[k], last'.arg.factor))
                 /\ last'.arg.factor = 1 =>
                      Parameters(t)'[k] =
                        FAdd(GetParameters(t)[k], last'.arg.update[k])
            /\ GetParameters(t)' = Parameters(t)']_vars

\* An update by twice <<1, 1>> has been added to parameters that were not
\* zero.
C2_Witness ==
  /\ IsUpdate(last)
  /\ last.outcome = "ok"
  /\ last.arg.factor = 2
  /\ last.arg.update = <<1, 1>>
  /\ last.pre = <<1, 0>>
  /\ Parameters("orig") = <<3, 2>>

RoundTrip ==
  /\ IsUpdate(prev) /\ prev.outcome = "ok" /\ prev.arg.factor = 1
  /\ IsUpdate(last) /\ last.outcome = "ok" /\ last.arg.factor = -1
  /\ last.arg.update = prev.arg.update
  /\ last.self = prev.self

\* C3 as stated: UpdateTransformParameters(update, 1) followed by
\* UpdateTransformParameters(update, -1) restores the parameters exactly.
C3_RoundTripExact == RoundTrip => Parameters(last.self) = prev.pre

\* The sums of the first call of a round trip were all exact.
ExactSums == \A k \in 1..Len(prev.pre) :
               Representable(prev.pre[k] + prev.arg.update[k])

\* C3 as amended: the round trip restores the parameters exactly when every
\* sum P[k] + update[k] of the first call is representable in the
\* parameters' value type, that is when the first call did not round.
C3_RoundTripWhenExact ==
  (RoundTrip /\ ExactSums) => Parameters(last.self) = prev.pre

\* A round trip without rounding has been made from parameters that are not
\* zero, by an update that is not zero.
C3_Witness ==
  /\ RoundTrip
  /\ ExactSums
  /\ prev.pre = <<3, 1>>
  /\ prev.arg.update = <<1, 1>>

\* C4 as stated: the parameters keep the length the transform was
\* constructed with, and no call writes behind the end of their data block.
C4_LengthKeptAndNoWriteOutside ==
  \A t \in alive :
    /\ Len(Parameters(t)) = ParametersDimension
    /\ past[pbuf[t]] = 0

IsCopyIn(c) == c.op \in {"CopyInParameters", "CopyInFixedParameters"}

\* C5: CopyInParameters and CopyInFixedParameters called with an empty range
\* change nothing: no parameter, no fixed parameter, no member variable of
\* the variant, and neither SetParameters nor SetFixedParameters runs.
C5_EmptyRangeIsNoOp ==
  [][(IsCopyIn(last') /\ Len(last'.arg.update) = 0)
       => /\ last'.events = <<>>
          /\ last'.outcome = "ok"
          /\ UNCHANGED <<alive, pbuf, fbuf, mem, past, variant>>]_vars

\* CopyInParameters has been called with an empty range that is not at the
\* beginning of the parameters, while m_Parameters was stale.
C5_Witness ==
  /\ last.op = "CopyInParameters"
  /\ Len(last.arg.update) = 0
  /\ last.arg.begin = Ptr(pbuf["orig"], 1)
  /\ Parameters("orig") # GetParameters("orig")
  /\ FixedParameters("orig") = <<3>>

\* C6: InternalClone gives the new object data blocks of its own that hold
\* the original's parameters and fixed parameters, and from then on a call on
\* one of the two objects changes nothing of the other.
C6_CloneIsIndependentCopy ==
  [][/\ last'.op = "InternalClone" =>
          /\ "clone" \in alive'
          /\ Cardinality({pbuf'["orig"], fbuf'["orig"],
                          pbuf'["clone"], fbuf'["clone"]}) = 4
          /\ Parameters("clone")' = GetParameters("orig")
          /\ Parameters("clone")' = Parameters("orig")'
          /\ FixedParameters("clone")' = FixedParameters("orig")
          /\ FixedParameters("orig")' = FixedParameters("orig")
          /\ variant'["clone"] = variant["orig"]
          /\ variant'["orig"] = variant["orig"]
     /\ last'.op # "InternalClone" =>
          \A u \in alive \ {last'.self} :
            /\ pbuf'[u] = pbuf[u] /\ fbuf'[u] = fbuf[u]
            /\ Parameters(u)' = Parameters(u)
            /\ FixedParameters(u)' = FixedParameters(u)
            /\ variant'[u] = variant[u]]_vars

\* The original has been updated after it was cloned, and the clone still
\* holds the parameters it was cloned with.
C6_Witness ==
  /\ "clone" \in alive
  /\ IsUpdate(last) /\ last.outcome = "ok" /\ last.self = "orig"
  /\ Parameters("clone") = <<1, 3>>
  /\ FixedParameters("clone") = <<1>>
  /\ Parameters("orig") # Parameters("clone")

\* The length a variable-length overload asks of its argument.
RequiredLength(op) ==
  CASE op = "TransformVector_Pixel" -> InputDimension
    [] op = "TransformCovariantVector_Pixel" -> InputDimension
    [] op = "TransformDiffusionTensor3D_Pixel" -> 6
    [] op = "TransformSymmetricSecondRankTensor_Pixel" ->
         InputDimension * InputDimension

VariableLengthOps == {"TransformVector_Pixel",
                      "TransformCovariantVector_Pixel",
                      "TransformDiffusionTensor3D_Pixel",
                      "TransformSymmetricSecondRankTensor_Pixel"}

\* C7: a call of a variable-length overload whose argument has not the
\* required length (InputDimension for TransformVector and
\* TransformCovariantVector, 6 for TransformDiffusionTensor3D,
\* InputDimension squared for TransformSymmetricSecondRankTensor) ends with
\* a size error in its first step: no Jacobian has been computed, there is
\* no result, and Parameters and FixedParameters are as before the call.
C7_SizeValidatedFirst ==
  [][\A h \in Threads :
       (/\ thr[h].pc = "idle"
        /\ thr'[h].pc # "idle"
        /\ thr'[h].op \in VariableLengthOps
        /\ Len(thr'[h].arg) # RequiredLength(thr'[h].op))
       => /\ thr'[h].pc = "done"
          /\ thr'[h].outcome = "SizeError"
          /\ thr'[h].jacobian = <<>>
          /\ thr'[h].invJacobian = <<>>
          /\ thr'[h].result = <<>>
          /\ \A t \in alive : /\ Parameters(t)' = Parameters(t)
                              /\ FixedParameters(t)' = FixedParameters(t)
                              /\ variant'[t] = variant[t]]_vars

C7_Witness ==
  /\ Parameters("orig") = <<2, 1>>
  /\ thr[1].op = "TransformSymmetricSecondRankTensor_Pixel"
  /\ thr[1].arg = <<1, 1, 0>>
  /\ thr[1].pc = "done"
  /\ thr[1].outcome = "SizeError"

\* A call that has returned a result.
Returned(h, ops) ==
  thr[h].pc = "done" /\ thr[h].outcome = "ok" /\ thr[h].op \in ops

\* C8: each of the three overloads of TransformVector returns OutputDimension
\* components, component i the sum over j of Jacobian(point)[i][j] * v[j]
\* for the InputDimension components of v, with nothing of the transform's
\* translation added; so the three return the same for the same v and point.
C8_VectorIsJacobianTimesVector ==
  \A h \in Threads :
    Returned(h, VectorOps) =>
      LET J == ComputeJacobianWithRespectToPosition("orig", thr[h].point)
          v == thr[h].arg
      IN  /\ DOMAIN thr[h].result = 1..OutputDimension
          /\ \A i \in 1..OutputDimension :
               thr[h].result[i] =
                 Accumulate([j \in 1..InputDimension |->
                               FMul(J[i][j], v[j])], InputDimension)

C8_Witness ==
  /\ Returned(1, {"TransformVector_Pixel"})
  /\ variant["orig"] = [shear |-> 2, offset |-> 1]
  /\ thr[1].point = <<1, 1>>
  /\ thr[1].arg = <<1, 2>>
  /\ thr[1].result # <<1, 2, 0>>

Identity(n) == [i \in 1..n |-> [j \in 1..n |-> IF i = j THEN 1 ELSE 0]]

\* The conditions that make X the Moore-Penrose pseudo inverse of A.
Penrose(A, X) ==
  /\ ExactMul(ExactMul(A, X), A) = A
  /\ ExactMul(ExactMul(X, A), X) = X
  /\ Transpose(ExactMul(A, X)) = ExactMul(A, X)
  /\ Transpose(ExactMul(X, A)) = ExactMul(X, A)

\* C9: both overloads of TransformCovariantVector return OutputDimension
\* components, component i the sum over j of InverseJacobian(point)[j][i] *
\* v[j]; the inverse Jacobian has InputDimension rows and OutputDimension
\* columns, so j and i are inside it, and it is the pseudo inverse, a left
\* inverse, of the Jacobian at the point.
C9_CovariantIsInverseTransposeTimesVector ==
  \A h \in Threads :
    Returned(h, CovariantOps) =>
      LET J == ComputeJacobianWithRespectToPosition("orig", thr[h].point)
          inv == thr[h].invJacobian
          v == thr[h].arg
      IN  /\ DOMAIN inv = 1..InputDimension
          /\ \A j \in 1..InputDimension : DOMAIN inv[j] = 1..OutputDimension
          /\ ExactMul(inv, J) = Identity(InputDimension)
          /\ Penrose(J, inv)
          /\ DOMAIN thr[h].result = 1..OutputDimension
          /\ \A i \in 1..OutputDimension :
               thr[h].result[i] =
                 Accumulate([j \in 1..InputDimension |->
                               FMul(inv[j][i], v[j])], InputDimension)

C9_Witness ==
  /\ Returned(1, {"TransformCovariantVector_Pixel"})
  /\ variant["orig"].shear = 2
  /\ thr[1].point = <<1, 1>>
  /\ thr[1].arg = <<1, 2>>
  /\ thr[1].result # <<1, 2, 0>>

\* The call of thread h has gone as it goes alone on the transform as it
\* is now: its Jacobians are those of the current Parameters and
\* FixedParameters at its own point, and what it returned is what the
\* statements after the Jacobians make of them and of its argument.
RanAlone(h) ==
  /\ thr[h].pc \in {"compute", "done"} /\ thr[h].outcome # "SizeError"
       => /\ thr[h].jacobian = JacobianOf(thr[h].op, thr[h].point)
          /\ thr[h].invJacobian = InverseJacobianOf(thr[h].op, thr[h].point)
  /\ thr[h].pc = "done" /\ thr[h].outcome = "ok"
       => thr[h].result \in Evaluate(thr[h])

\* C10: while evaluations (TransformVector, TransformCovariantVector,
\* TransformDiffusionTensor3D, TransformSymmetricSecondRankTensor,
\* ComputeInverseJacobianWithRespectToPosition) run and no mutator does,
\* Parameters, FixedParameters and the members read from them stay as each
\* call found them, and, however the steps of the threads interleave, a
\* call returns what it returns when it runs alone on the current
\* Parameters and FixedParameters at its own point.
C10_EvaluationsArePure ==
  \A h \in Threads :
    thr[h].pc # "idle" => thr[h].found = Found("orig") /\ RanAlone(h)

C10_Witness ==
  /\ Parameters("orig") = <<2, 1>>
  /\ Returned(1, {"TransformVector"})
  /\ thr[1].point = <<1, 1>>
  /\ Returned(2, {"TransformCovariantVector"})
  /\ thr[2].point = <<0, 0>>
  /\ ComputeJacobianWithRespectToPosition("orig", thr[1].point)
       # ComputeJacobianWithRespectToPosition("orig", thr[2].point)

\* The 3 x 3 matrix the reorientation applies: the block of the
\* InputDimension x OutputDimension matrix over the identity.
LinearBlock(jacobian) ==
  <<<<jacobian[1][1], jacobian[1][2], jacobian[1][3]>>,
    <<jacobian[2][1], jacobian[2][2], jacobian[2][3]>>,
    <<0, 0, 1>>>>

ExactImage(M, v) == <<Dot(M[1], v), Dot(M[2], v), Dot(M[3], v)>>

ExactCross(a, b) ==
  <<a[2] * b[3] - a[3] * b[2], a[3] * b[1] - a[1] * b[3],
    a[1] * b[2] - a[2] * b[1]>>

\* f is a frame of unit vectors at right angles, the third the cross
\* product of the first two.
OrthonormalFrame(f) ==
  /\ \A k \in 1..3 : Dot(f[k], f[k]) = 1
  /\ Dot(f[1], f[2]) = 0
  /\ f[3] = ExactCross(f[1], f[2])

\* The frame follows the images m1 and m2 of the eigenvectors of the
\* largest and the second eigenvalue: f[1] along m1, f[2] along what is left
\* of m2 with its part along f[1] taken away.
FollowsImages(f, m1, m2) ==
  LET part == Dot(m2, f[1])
      rest == <<m2[1] - part * f[1][1], m2[2] - part * f[1][2],
                m2[3] - part * f[1][3]>>
  IN  /\ ExactCross(f[1], m1) = <<0, 0, 0>>
      /\ ExactCross(f[2], rest) = <<0, 0, 0>>

\* The sum of the eigenvalues times the outer products of the frame, as the
\* 6 elements of a symmetric tensor.
FrameTensor(values, f) ==
  LET S(i, j) == values[3] * f[1][i] * f[1][j] + values[2] * f[2][i] * f[2][j]
                   + values[1] * f[3][i] * f[3][j]
  IN  <<S(1, 1), S(1, 2), S(1, 3), S(2, 2), S(2, 3), S(3, 3)>>

Reoriented(h) ==
  Returned(h,
    {"PreservationOfPrincipalDirectionDiffusionTensor3DReorientation"})

IsProjection(c) == c.op = "ApplyToImageMetadata"

\* What a call on a linear transform does, in its order.
ProjectionSteps ==
  <<"GetInverseTransform", "SetOrigin", "SetDirection", "SetSpacing">>

\* The descriptor after is the descriptor before projected with the inverse:
\* the origin mapped as a point, and for every axis the column of the
\* direction times the spacing mapped as a vector, its norm the spacing and
\* the vector divided by the norm the column.
ProjectedWith(inverse, before, after) ==
  /\ after.origin = InverseTransformPoint(inverse, before.origin)
  /\ \A i \in 1..ImageDimension :
       LET w == InverseTransformVector(inverse,
                  <<FMul(before.direction[1][i], before.spacing[i]),
                    FMul(before.direction[2][i], before.spacing[i])>>)
       IN  /\ after.spacing[i] = GetNorm(w)
           /\ \A k \in 1..ImageDimension :
                after.direction[k][i] = NearestQuotient(w[k], GetNorm(w))

\* C12: ApplyToImageMetadata on a transform that is not linear gives the
\* warning and does not fail: after the warning it takes the inverse once
\* and writes the mapped origin, then the direction, then the spacing, the
\* steps and the values of a call on a linear transform; Parameters,
\* FixedParameters and the variant's members stay as they are.
C12_NonLinearProjectionWarnsAndProceeds ==
  [][IsProjection(last')
       => /\ last'.outcome = "ok"
          /\ last'.events =
               (IF IsLinear(last'.self) THEN <<>> ELSE <<"Warning">>)
                 \o ProjectionSteps
          /\ Cardinality({k \in DOMAIN last'.events :
                            last'.events[k] = "GetInverseTransform"}) = 1
          /\ ProjectedWith(GetInverseTransform(last'.self), image, image')
          /\ UNCHANGED <<alive, pbuf, fbuf, mem, past, variant>>]_vars

\* A call on a transform that is not linear has warned and has moved the
\* origin and changed the spacing and the direction of the image.
C12_Witness ==
  /\ IsProjection(last)
  /\ ~IsLinear(last.self)
  /\ last.events[1] = "Warning"
  /\ GetParameters(last.self) = <<1, 1>>
  /\ image.origin = <<-1, 0>>
  /\ image.spacing = <<1, 3>>
  /\ image.direction = <<<<1, -1>>, <<0, 1>>>>

\* Step a comes before step b in the events of call c, and each once.
Before(c, a, b) ==
  \E i, j \in DOMAIN c.events :
    /\ i < j
    /\ c.events[i] = a
    /\ c.events[j] = b
    /\ \A k \in DOMAIN c.events :
         /\ c.events[k] = a => k = i
         /\ c.events[k] = b => k = j

\* m_Parameters with update[k] * factor added to every element, in the
\* arithmetic of the parameter value type.
Added(p, update, factor) ==
  [k \in 1..Len(p) |->
     Round(p[k] + (IF factor = 1 THEN update[k]
                   ELSE Round(update[k] * factor)))]

\* C13: a call of UpdateTransformParameters that succeeds has passed the
\* size check, then reads the variant's members with GetParameters, then
\* adds, then hands the sum to SetParameters, and calls Modified last.  The
\* sum is built on the members as they are when the call begins, not on an
\* older content of the data block; the variant is given the whole sum.
C13_UpdateStepsInOrder ==
  [][(IsUpdate(last') /\ last'.outcome = "ok")
       => LET t == last'.self
              members == <<variant[t].shear, variant[t].offset>>
              sum == Added(members, last'.arg.update, last'.arg.factor)
          IN  /\ Len(last'.arg.update) = GetNumberOfParameters(t)
              /\ Before(last', "GetParameters", "Add")
              /\ Before(last', "Add", "SetParameters")
              /\ Before(last', "SetParameters", "Modified")
              /\ last'.events[Len(last'.events)] = "Modified"
              /\ mem'[pbuf[t]] = sum
              /\ variant'[t] = [shear |-> sum[1], offset |-> sum[2]]]_vars

\* An update has succeeded on a transform whose member had been set behind
\* the data block's back: the sum is built on the member.
C13_Witness ==
  /\ IsUpdate(last)
  /\ last.outcome = "ok"
  /\ prev.op = "SetOffset"
  /\ last.pre = <<3, 1>>
  /\ last.arg.update = <<1, 1>>
  /\ last.arg.factor = 1
  /\ Parameters(last.self) = <<4, 2>>

\* The block after holds the values of the range from its first element on,
\* and behind them the values it held before.
RangeIsIn(after, before, data) ==
  /\ Len(after) = Len(before)
  /\ \A k \in 1..Len(data) : k <= Len(after) /\ after[k] = data[k]
  /\ \A k \in (Len(data) + 1)..Len(after) : after[k] = before[k]

\* What C14 says of one call c that finds the data blocks `before` and
\* the members `members` and leaves `after` and `left`.
CopyInProtocol(c, before, after, members, left) ==
  LET t == c.self
      params == c.op = "CopyInParameters"
      b == IF params THEN pbuf[t] ELSE fbuf[t]
      setter == IF params THEN "SetParameters" ELSE "SetFixedParameters"
  IN  /\ IF c.arg.begin = Ptr(b, 0)
           THEN after[b] = before[b] /\ c.events = <<setter>>
           ELSE RangeIsIn(after[b], before[b], c.arg.update)
                  /\ c.events = <<"Copy", setter>>
      /\ params => left[t] = Interpret(after[b])
      /\ ~params => after[pbuf[t]] = before[pbuf[t]] /\ left = members

\* C14 as stated: with a range that is not empty, CopyInParameters copies
\* the values of the range into Parameters from index 0 on, unless begin is
\* the address of the first element of Parameters, and then Parameters keeps
\* its values; either way SetParameters is then given Parameters, once.
\* CopyInFixedParameters does the same with FixedParameters and
\* SetFixedParameters and leaves Parameters alone.
C14_CopyInCopiesUnlessAliased ==
  [][(IsCopyIn(last') /\ Len(last'.arg.update) > 0)
       => CopyInProtocol(last', mem, mem', variant, variant')]_vars

\* C15 as stated: for a tensor t of 6 elements the overload of
\* TransformDiffusionTensor3D for vectors of variable length returns 6
\* elements, every one equal to that element of the result of the overload
\* for tensors of fixed length on the tensor made of all six elements of t.
C15_VariableLengthEqualsFixedLength ==
  \A h \in Threads :
    Returned(h, {"TransformDiffusionTensor3D_Pixel"}) =>
      /\ Len(thr[h].result) = 6
      /\ \E eig \in EigenAnalyses(thr[h].arg) :
           \A i \in 1..6 :
             thr[h].result[i] =
               TransformDiffusionTensor3D(eig, thr[h].invJacobian)[i]

\* Jacobian(point) * T * InverseJacobian(point) for the input tensor of the
\* call c, element (i, j) of T taken from the symmetric tensor or from the
\* flat vector.
ConjugatedTensor(c) ==
  LET J == ComputeJacobianWithRespectToPosition("orig", c.point)
      K == ComputeInverseJacobianWithRespectToPosition("orig", c.point)
      T == [i \in 1..InputDimension |-> [j \in 1..InputDimension |->
              IF c.op = "TransformSymmetricSecondRankTensor"
                THEN c.arg[SymIndex(i, j, InputDimension)]
                ELSE c.arg[(j - 1) + InputDimension * (i - 1) + 1]]]
  IN  MatMul(MatMul(J, T), K)

\* Element (i, j) of the result of the call c.
ResultElement(c, i, j) ==
  IF c.op = "TransformSymmetricSecondRankTensor"
    THEN c.result[SymIndex(i, j, OutputDimension)]
    ELSE c.result[(j - 1) + OutputDimension * (i - 1) + 1]

\* C16 as stated: both overloads of TransformSymmetricSecondRankTensor
\* return Jacobian(p) * T * InverseJacobian(p): every element (i, j) of the
\* result, i and j below OutputDimension, is that element of the product, in
\* the symmetric tensor and at j + OutputDimension * i of the flat vector
\* of OutputDimension squared elements, also when the product is not
\* symmetric.
C16_SymmetricTensorIsConjugated ==
  \A h \in Threads :
    Returned(h, SymmetricOps) =>
      /\ thr[h].op = "TransformSymmetricSecondRankTensor_Pixel"
           => Len(thr[h].result) = OutputDimension * OutputDimension
      /\ \A i, j \in 1..OutputDimension :
           ResultElement(thr[h], i, j) = ConjugatedTensor(thr[h])[i][j]

====
